---- MODULE Spec2Model ----
(***************************************************************************)
(* Model of desktop/scripts/build-utils.ts: preparation of the default     *)
(* plugins (selection, build and link, entry-point generation), the three  *)
(* bundle compilations, the source-map move and the workspace provisioner. *)
(***************************************************************************)
EXTENDS Naturals, Sequences, FiniteSets, TLC

\* ---------------------------------------------------------------- bounds

\* Longest source enumeration getSourcePlugins returns in the model.
MaxPlugins == 3
\* How many times prepareDefaultPlugins is run in a row on the same inputs.
MaxRuns == 2
\* How many operations of the compiler the build script invokes.
MaxCalls == 3

\* ------------------------------------------------------------- constants

\* const {version} = require('../package.json')
version == "0.99.0"

\* The allow-list of the insiders build.
hardcodedPlugins ==
  { "DeviceLogs", "CrashReporter", "MobileBuilds", "Hermesdebuggerrn", "React",
    "Inspector", "Network", "AnalyticsLogging", "GraphQL", "UIPerf",
    "MobileConfig", "Databases", "FunnelLogger", "Navigation", "Fresco",
    "Preferences" }

\* The JavaScript value undefined, as the value of a string-typed field.
Undefined == "undefined"

\* ------------------------------------------------ plugin descriptors

\* InstalledPluginDetails of the plugin source enumeration: two ids of the
\* allow-list and two outside it, every combination of a "0.0.0" and a set
\* version / flipperSDKVersion.
InstalledPlugin(id, name, v, sdk) ==
  [ id |-> id, name |-> name, version |-> v, flipperSDKVersion |-> sdk,
    dir |-> "plugins/" \o name, entry |-> "plugins/" \o name \o "/dist/bundle.js",
    title |-> "title of " \o id, isBundled |-> FALSE ]

PluginUniverse ==
  { InstalledPlugin("DeviceLogs", "flipper-plugin-device-logs", "0.0.0", "0.0.0"),
    InstalledPlugin("Network", "flipper-plugin-network", "1.2.0", "0.0.0"),
    InstalledPlugin("Sandbox", "flipper-plugin-sandbox", "0.0.0", "0.50.0"),
    InstalledPlugin("Leaks", "flipper-plugin-leak-canary", "2.0.0", "0.50.0") }

\* The lists of distinct plugins of length at most n.
PluginLists(n) ==
  UNION { { l \in [1..k -> PluginUniverse] :
              \A i, j \in 1..k : i # j => l[i] # l[j] } : k \in 0..n }

\* ------------------------------------------------------- file contents

\* What a directory entry holds: a stale entry of an earlier build, a
\* junction to a plugin directory, a JSON file, or a copied pre-built plugin.
Stale == [ kind |-> "stale", target |-> "", json |-> <<>> ]
Junction(d) == [ kind |-> "junction", target |-> d, json |-> <<>> ]
JsonFile(s) == [ kind |-> "json", target |-> "", json |-> s ]
Prebuilt(d) == [ kind |-> "prebuilt", target |-> d, json |-> <<>> ]

EmptyDirectory == [ k \in {} |-> Stale ]

\* fs.writeJSON / fs.ensureSymlink on a path that is free or held by a file.
WriteEntry(d, n, c) == [ k \in DOMAIN d \cup {n} |-> IF k = n THEN c ELSE d[k] ]

\* A copy that is not recursive: the directories of src are left behind.
CopyIntoMutant(src, dest) ==
  LET files == { k \in DOMAIN src : src[k].kind # "prebuilt" }
  IN [ k \in DOMAIN dest \cup files |-> IF k \in files THEN src[k] ELSE dest[k] ]

\* fs.copy(src, dest, {recursive, overwrite}): entries of src replace those of
\* the same name in dest, the other entries of dest stay.
CopyInto(src, dest) ==
  [ k \in DOMAIN dest \cup DOMAIN src |-> IF k \in DOMAIN src THEN src[k] ELSE dest[k] ]

\* The directories FLIPPER_DEFAULT_PLUGINS_DIR may name, with their contents.
OverridePaths == { "prebuilt/a", "prebuilt/b", "prebuilt/missing" }

OverrideContents(p) ==
  IF p = "prebuilt/a"
    THEN WriteEntry(EmptyDirectory, "flipper-plugin-prebuilt", Prebuilt("a"))
    ELSE WriteEntry(
           WriteEntry(EmptyDirectory, "flipper-plugin-prebuilt", Prebuilt("b")),
           "bundled.json",
           JsonFile(<< [ id |-> "Prebuilt", name |-> "flipper-plugin-prebuilt" ] >>))

OverrideExists(p) == p # "prebuilt/missing"

\* What the default-plugins directory may hold before a build.
StaleDirectory ==
  WriteEntry(
    WriteEntry(
      WriteEntry(EmptyDirectory, "bundled.json", Stale),
      "flipper-plugin-network", Stale),
    "flipper-plugin-prebuilt", Stale)

\* An index.tsx left behind by an earlier build.
StaleIndex == [ prelude |-> "stale", exports |-> <<>> ]

\* ------------------------------------------------------ pure functions

\* The filter with its flag the wrong way round.
FilterInsidersMutant(plugins, insiders) ==
  SelectSeq(plugins, LAMBDA p : insiders \/ p.id \in hardcodedPlugins)

\* sourcePlugins.filter((p) => !isInsidersBuild || hardcodedPlugins.has(p.id))
FilterInsiders(plugins, insiders) ==
  SelectSeq(plugins, LAMBDA p : ~insiders \/ p.id \in hardcodedPlugins)

\* {...p, isBundled: true, version: ..., flipperSDKVersion: ..., dir: undefined,
\*  entry: undefined}
OverriddenFields == { "isBundled", "version", "flipperSDKVersion", "dir", "entry" }

\* flipperSDKVersion normalised on the test of version.
ToBundledMutant(p) ==
  [ f \in DOMAIN p \cup OverriddenFields |->
      CASE f = "isBundled" -> TRUE
        [] f = "version" -> IF p.version = "0.0.0" THEN version ELSE p.version
        [] f = "flipperSDKVersion" ->
             IF p.version = "0.0.0" THEN version ELSE p.flipperSDKVersion
        [] f = "dir" -> Undefined
        [] f = "entry" -> Undefined
        [] OTHER -> p[f] ]

\* The BundledPluginDetails of one plugin.
ToBundled(p) ==
  [ f \in DOMAIN p \cup OverriddenFields |->
      CASE f = "isBundled" -> TRUE
        [] f = "version" -> IF p.version = "0.0.0" THEN version ELSE p.version
        [] f = "flipperSDKVersion" ->
             IF p.flipperSDKVersion = "0.0.0" THEN version ELSE p.flipperSDKVersion
        [] f = "dir" -> Undefined
        [] f = "entry" -> Undefined
        [] OTHER -> p[f] ]

\* defaultPlugins.map(...)
BundledPlugins(plugins) == [ k \in 1..Len(plugins) |-> ToBundled(plugins[k]) ]

\* JSON.stringify of one descriptor, as fs.writeJSON does it: a key whose value
\* is undefined is left out.  isBundled is the one field that is no string.
ToJSON(b) ==
  [ f \in { g \in DOMAIN b : g # "isBundled" => b[g] # Undefined } |-> b[f] ]

ManifestJSON(bundled) == [ k \in 1..Len(bundled) |-> ToJSON(bundled[k]) ]

\* One line "'name': tryRequire('name', () => require('name'))" of the loader.
RequireStatement(x) == [ key |-> x.name, tryRequire |-> x.name, require |-> x.name ]

\* The statements in reverse order.
PluginRequresMutant(bundled) ==
  [ k \in 1..Len(bundled) |-> RequireStatement(bundled[Len(bundled) + 1 - k]) ]

\* bundledPlugins.map(...).join(',\n')
PluginRequres(bundled) ==
  [ k \in 1..Len(bundled) |-> RequireStatement(bundled[k]) ]

\* The text of index.tsx: the tryRequire prelude and the exported object.
GeneratedIndex(bundled) ==
  [ prelude |-> "tryRequire", exports |-> PluginRequres(bundled) ]

\* ---------------------------------------------------------------- state

VARIABLES
  \* process.env and the argument of prepareDefaultPlugins
  env, isInsidersBuild,
  \* the list getSourcePlugins resolves to
  enumeration,
  \* the file system: the default-plugins directory and the two index.tsx
  defaultPluginsDir, appIndex, browserUiIndex,
  \* prepareDefaultPlugins: position, locals, the loop index of
  \* buildDefaultPlugins, the argument and local of
  \* generateDefaultPluginEntryPoints
  pc, sourcePlugins, defaultPlugins, idx, genArg, bundledPlugins,
  \* what the run did: writes into the default-plugins directory, calls of
  \* getSourcePlugins, arguments of buildDefaultPlugins and of
  \* generateDefaultPluginEntryPoints, the plugins attempted, calls of die
  \* (by any operation of the module)
  fsLog, enumerations, buildCalls, genCalls, attempts, dieCalls,
  \* the number of the run, and what the previous run generated
  run, prevGen,
  \* NODE_ENV !== 'production'
  dev,
  \* the build script: the operation it is in and how many it has invoked
  cpc, invoked,
  \* the bundle files, the options of the last Metro.runBuild per target, the
  \* targets whose stripSourceMapComment has been started and has not ended
  bundles, metroOptions, stripPending,
  \* what the operations handed to their caller, the failures so far, the
  \* number of Metro.runBuild calls, process.exit
  results, failures, metroRuns, exited, exitCode,
  \* moveSourceMaps: its argument, its position, the files and directories,
  \* and the files when it was called
  sourceMapFolder, mpc, files, directories, files0

varsPlugins ==
  << env, isInsidersBuild, enumeration, defaultPluginsDir, appIndex,
     browserUiIndex, pc, sourcePlugins, defaultPlugins, idx, genArg,
     bundledPlugins, fsLog, enumerations, buildCalls, genCalls, attempts,
     run, prevGen >>

varsCompile ==
  << dev, cpc, invoked, bundles, metroOptions, stripPending, results,
     failures, metroRuns, exited, exitCode >>

varsMaps == << sourceMapFolder, mpc, files, directories, files0 >>

vars == << varsPlugins, varsCompile, varsMaps, dieCalls >>

\* ------------------------------------------------------- quiet states

\* The three build targets.
Targets == { "renderer", "main", "server" }

NoBundle == [ exists |-> FALSE, minified |-> FALSE, comment |-> FALSE ]

NotCalled ==
  [ dev |-> FALSE, minify |-> FALSE, resetCache |-> FALSE, sourceMap |-> FALSE,
    sourceMapUrl |-> "", inlineSourceMap |-> FALSE ]

\* No operation of the compiler has been invoked.
CompileIdle ==
  /\ cpc = "idle"
  /\ invoked = 0
  /\ bundles = [ t \in Targets |-> NoBundle ]
  /\ metroOptions = [ t \in Targets |-> NotCalled ]
  /\ stripPending = {}
  /\ results = <<>>
  /\ failures = {}
  /\ metroRuns = 0
  /\ exited = FALSE
  /\ exitCode = 0
  /\ dieCalls = 0

QuietCompile == dev = TRUE /\ CompileIdle

QuietMaps ==
  /\ sourceMapFolder = Undefined
  /\ mpc = "idle"
  /\ files = [ q \in {} |-> "" ]
  /\ directories = {}
  /\ files0 = files

Environments ==
  [ FLIPPER_DEFAULT_PLUGINS_DIR : {""} \cup OverridePaths,
    FLIPPER_NO_DEFAULT_PLUGINS : BOOLEAN,
    FLIPPER_NO_BUNDLED_PLUGINS : BOOLEAN,
    FLIPPER_NO_REBUILD_PLUGINS : BOOLEAN ]

QuietPlugins ==
  /\ env = [ FLIPPER_DEFAULT_PLUGINS_DIR |-> "",
             FLIPPER_NO_DEFAULT_PLUGINS |-> FALSE,
             FLIPPER_NO_BUNDLED_PLUGINS |-> FALSE,
             FLIPPER_NO_REBUILD_PLUGINS |-> FALSE ]
  /\ isInsidersBuild = FALSE
  /\ enumeration = <<>>
  /\ defaultPluginsDir = EmptyDirectory
  /\ appIndex = StaleIndex
  /\ browserUiIndex = StaleIndex
  /\ pc = "idle"
  /\ sourcePlugins = <<>>
  /\ defaultPlugins = <<>>
  /\ idx = 1
  /\ genArg = <<>>
  /\ bundledPlugins = <<>>
  /\ fsLog = <<>>
  /\ enumerations = 0
  /\ buildCalls = <<>>
  /\ genCalls = <<>>
  /\ attempts = <<>>
  /\ run = 1
  /\ prevGen = [ arg |-> <<>>, manifest |-> Stale, app |-> StaleIndex,
                  ui |-> StaleIndex ]

InitPlugins ==
  /\ env \in Environments
  /\ isInsidersBuild \in BOOLEAN
  /\ enumeration \in PluginLists(MaxPlugins)
  /\ defaultPluginsDir \in { EmptyDirectory, StaleDirectory }
  /\ appIndex = StaleIndex
  /\ browserUiIndex = StaleIndex
  /\ pc = "start"
  /\ sourcePlugins = <<>>
  /\ defaultPlugins = <<>>
  /\ idx = 1
  /\ genArg = <<>>
  /\ bundledPlugins = <<>>
  /\ fsLog = <<>>
  /\ enumerations = 0
  /\ buildCalls = <<>>
  /\ genCalls = <<>>
  /\ attempts = <<>>
  /\ run = 1
  /\ prevGen = [ arg |-> <<>>, manifest |-> Stale, app |-> StaleIndex,
                  ui |-> StaleIndex ]
  /\ QuietCompile
  /\ QuietMaps

forcedDefaultPluginsDir == env.FLIPPER_DEFAULT_PLUGINS_DIR

\* ------------------------------------------------ prepareDefaultPlugins

\* A reset that leaves the entries of the directory in place (ensureDir).
EmptyDirMutant ==
  /\ pc = "start"
  /\ fsLog' = Append(fsLog, "emptyDir")
  /\ pc' = "emptied"
  /\ UNCHANGED << env, isInsidersBuild, enumeration, defaultPluginsDir, appIndex,
                  browserUiIndex, sourcePlugins, defaultPlugins, idx, genArg,
                  bundledPlugins, enumerations, buildCalls, genCalls, attempts,
                  dieCalls, run, prevGen >>
  /\ UNCHANGED << varsCompile, varsMaps >>

\* await fs.emptyDir(defaultPluginsDir)
EmptyDir ==
  /\ pc = "start"
  /\ defaultPluginsDir' = EmptyDirectory
  /\ fsLog' = Append(fsLog, "emptyDir")
  /\ pc' = "emptied"
  /\ UNCHANGED << env, isInsidersBuild, enumeration, appIndex, browserUiIndex,
                  sourcePlugins, defaultPlugins, idx, genArg, bundledPlugins,
                  enumerations, buildCalls, genCalls, attempts, dieCalls, run,
                  prevGen >>
  /\ UNCHANGED << varsCompile, varsMaps >>

\* if (forcedDefaultPluginsDir) { await fs.copy(...) }
CopyOverride ==
  /\ pc = "emptied"
  /\ forcedDefaultPluginsDir # ""
  /\ OverrideExists(forcedDefaultPluginsDir)
  /\ defaultPluginsDir' =
       CopyInto(OverrideContents(forcedDefaultPluginsDir), defaultPluginsDir)
  /\ fsLog' = Append(fsLog, "copy")
  /\ pc' = "copied"
  /\ UNCHANGED << env, isInsidersBuild, enumeration, appIndex, browserUiIndex,
                  sourcePlugins, defaultPlugins, idx, genArg, bundledPlugins,
                  enumerations, buildCalls, genCalls, attempts, dieCalls, run,
                  prevGen >>
  /\ UNCHANGED << varsCompile, varsMaps >>

\* fs.copy rejects (the override directory does not exist): the rejection
\* leaves prepareDefaultPlugins, nothing catches it.
CopyOverrideFails ==
  /\ pc = "emptied"
  /\ forcedDefaultPluginsDir # ""
  /\ ~OverrideExists(forcedDefaultPluginsDir)
  /\ pc' = "rejected_copy"
  /\ UNCHANGED << env, isInsidersBuild, enumeration, defaultPluginsDir, appIndex,
                  browserUiIndex, sourcePlugins, defaultPlugins, idx, genArg,
                  bundledPlugins, fsLog, enumerations, buildCalls, genCalls,
                  attempts, dieCalls, run, prevGen >>
  /\ UNCHANGED << varsCompile, varsMaps >>

\* The test of FLIPPER_NO_BUNDLED_PLUGINS negated.
RunsBuilderMutant == ~env.FLIPPER_NO_BUNDLED_PLUGINS

\* Whether the else branch calls buildDefaultPlugins.
RunsBuilder == env.FLIPPER_NO_BUNDLED_PLUGINS

\* The else branch up to its next await: the enumeration (or []), the filter
\* and the call of buildDefaultPlugins when pre-bundling is disabled.
SelectPlugins ==
  /\ pc = "emptied"
  /\ forcedDefaultPluginsDir = ""
  /\ sourcePlugins' =
       IF env.FLIPPER_NO_DEFAULT_PLUGINS THEN <<>> ELSE enumeration
  /\ enumerations' =
       IF env.FLIPPER_NO_DEFAULT_PLUGINS THEN enumerations ELSE enumerations + 1
  /\ defaultPlugins' = FilterInsiders(sourcePlugins', isInsidersBuild)
  /\ IF RunsBuilder
       THEN /\ buildCalls' = Append(buildCalls, defaultPlugins')
            /\ idx' = 1
            /\ pc' = "build"
       ELSE /\ UNCHANGED << buildCalls, idx >>
            /\ pc' = "bundle"
  /\ UNCHANGED << env, isInsidersBuild, enumeration, defaultPluginsDir, appIndex,
                  browserUiIndex, genArg, bundledPlugins, fsLog, genCalls,
                  attempts, dieCalls, run, prevGen >>
  /\ UNCHANGED << varsCompile, varsMaps >>

\* getSourcePlugins rejects: the rejection leaves prepareDefaultPlugins.
GetSourcePluginsFails ==
  /\ pc = "emptied"
  /\ forcedDefaultPluginsDir = ""
  /\ ~env.FLIPPER_NO_DEFAULT_PLUGINS
  /\ enumerations' = enumerations + 1
  /\ pc' = "rejected_enumeration"
  /\ UNCHANGED << env, isInsidersBuild, enumeration, defaultPluginsDir, appIndex,
                  browserUiIndex, sourcePlugins, defaultPlugins, idx, genArg,
                  bundledPlugins, fsLog, buildCalls, genCalls, attempts,
                  dieCalls, run, prevGen >>
  /\ UNCHANGED << varsCompile, varsMaps >>

\* -------------------------------------------------- buildDefaultPlugins

\* No catch: the throw leaves buildDefaultPlugins.
CatchPluginErrorMutant(k) == [ pc |-> "rejected_build", idx |-> k ]

\* catch (err) { console.error(...) }: the loop goes on with the next plugin.
CatchPluginError(k) == [ pc |-> "build", idx |-> k + 1 ]

\* One iteration of the loop: runBuild unless FLIPPER_NO_REBUILD_PLUGINS,
\* then ensureSymlink; either may throw.
BuildPlugin ==
  /\ pc = "build"
  /\ idx <= Len(defaultPlugins)
  /\ \E built \in IF env.FLIPPER_NO_REBUILD_PLUGINS THEN {"skipped"} ELSE {"ok", "threw"},
        linked \in {"ok", "threw"} :
       LET plugin == defaultPlugins[idx]
           link == IF built = "threw" THEN "skipped" ELSE linked
           after == IF built = "threw" \/ link = "threw"
                      THEN CatchPluginError(idx)
                      ELSE [ pc |-> "build", idx |-> idx + 1 ]
       IN /\ attempts' = Append(attempts,
                            [ name |-> plugin.name, build |-> built, link |-> link ])
          /\ IF link = "ok"
               THEN /\ defaultPluginsDir' =
                         WriteEntry(defaultPluginsDir, plugin.name, Junction(plugin.dir))
                    /\ fsLog' = Append(fsLog, "ensureSymlink")
               ELSE UNCHANGED << defaultPluginsDir, fsLog >>
          /\ pc' = after.pc
          /\ idx' = after.idx
  /\ UNCHANGED << env, isInsidersBuild, enumeration, appIndex, browserUiIndex,
                  sourcePlugins, defaultPlugins, genArg, bundledPlugins,
                  enumerations, buildCalls, genCalls, dieCalls, run, prevGen >>
  /\ UNCHANGED << varsCompile, varsMaps >>

\* The loop is over: buildDefaultPlugins returns.
BuildDone ==
  /\ pc = "build"
  /\ idx > Len(defaultPlugins)
  /\ pc' = "built"
  /\ UNCHANGED << env, isInsidersBuild, enumeration, defaultPluginsDir, appIndex,
                  browserUiIndex, sourcePlugins, defaultPlugins, idx, genArg,
                  bundledPlugins, fsLog, enumerations, buildCalls, genCalls,
                  attempts, dieCalls, run, prevGen >>
  /\ UNCHANGED << varsCompile, varsMaps >>

\* ------------------------------------- generateDefaultPluginEntryPoints

\* The argument at the three call sites: [] after the copy and after
\* buildDefaultPlugins, defaultPlugins otherwise.
GenerateArgument == IF pc = "bundle" THEN defaultPlugins ELSE <<>>

\* The call, the map and await fs.writeJSON(bundled.json, bundledPlugins).
GenerateManifest ==
  /\ pc \in {"copied", "built", "bundle"}
  /\ genArg' = GenerateArgument
  /\ genCalls' = Append(genCalls, genArg')
  /\ bundledPlugins' = BundledPlugins(genArg')
  /\ defaultPluginsDir' =
       WriteEntry(defaultPluginsDir, "bundled.json",
                  JsonFile(ManifestJSON(bundledPlugins')))
  /\ fsLog' = Append(fsLog, "writeJSON")
  /\ pc' = "gen_app"
  /\ UNCHANGED << env, isInsidersBuild, enumeration, appIndex, browserUiIndex,
                  sourcePlugins, defaultPlugins, idx, enumerations, buildCalls,
                  attempts, dieCalls, run, prevGen >>
  /\ UNCHANGED << varsCompile, varsMaps >>

\* await fs.writeFile(appDir/src/defaultPlugins/index.tsx, generatedIndex)
WriteAppIndex ==
  /\ pc = "gen_app"
  /\ appIndex' = GeneratedIndex(bundledPlugins)
  /\ pc' = "gen_ui"
  /\ UNCHANGED << env, isInsidersBuild, enumeration, defaultPluginsDir,
                  browserUiIndex, sourcePlugins, defaultPlugins, idx, genArg,
                  bundledPlugins, fsLog, enumerations, buildCalls, genCalls,
                  attempts, dieCalls, run, prevGen >>
  /\ UNCHANGED << varsCompile, varsMaps >>

\* await fs.writeFile(browserUiDir/src/defaultPlugins/index.tsx, generatedIndex);
\* generateDefaultPluginEntryPoints and prepareDefaultPlugins return.
WriteBrowserUiIndex ==
  /\ pc = "gen_ui"
  /\ browserUiIndex' = GeneratedIndex(bundledPlugins)
  /\ pc' = "done"
  /\ UNCHANGED << env, isInsidersBuild, enumeration, defaultPluginsDir, appIndex,
                  sourcePlugins, defaultPlugins, idx, genArg, bundledPlugins,
                  fsLog, enumerations, buildCalls, genCalls, attempts, dieCalls,
                  run, prevGen >>
  /\ UNCHANGED << varsCompile, varsMaps >>

\* The caller runs prepareDefaultPlugins again on the same inputs and the
\* file system the run left; what the run generated is remembered.
RunAgain ==
  /\ pc = "done"
  /\ run < MaxRuns
  /\ run' = run + 1
  /\ prevGen' = [ arg |-> genArg, manifest |-> defaultPluginsDir["bundled.json"],
                   app |-> appIndex, ui |-> browserUiIndex ]
  /\ pc' = "start"
  /\ sourcePlugins' = <<>>
  /\ defaultPlugins' = <<>>
  /\ idx' = 1
  /\ genArg' = <<>>
  /\ bundledPlugins' = <<>>
  /\ fsLog' = <<>>
  /\ enumerations' = 0
  /\ buildCalls' = <<>>
  /\ genCalls' = <<>>
  /\ attempts' = <<>>
  /\ UNCHANGED << env, isInsidersBuild, enumeration, defaultPluginsDir, appIndex,
                  browserUiIndex, dieCalls >>
  /\ UNCHANGED << varsCompile, varsMaps >>

NextPlugins ==
  \/ EmptyDir
  \/ CopyOverride
  \/ CopyOverrideFails
  \/ SelectPlugins
  \/ GetSourcePluginsFails
  \/ BuildPlugin
  \/ BuildDone
  \/ GenerateManifest
  \/ WriteAppIndex
  \/ WriteBrowserUiIndex
  \/ RunAgain

SpecPlugins == InitPlugins /\ [][NextPlugins]_vars

\* ---------------------------------------------------------------- claims

\* The manifest the default-plugins directory holds (bundled.json).
Manifest == defaultPluginsDir["bundled.json"].json

\* prepareDefaultPlugins is past its selection, and getSourcePlugins was
\* called and resolved to the enumeration.
Selected ==
  /\ pc \in {"build", "built", "bundle", "gen_app", "gen_ui", "done"}
  /\ enumerations = 1

IsSubsequenceInOrder(sub, full) ==
  /\ \A k \in 1..Len(sub) : \E j \in 1..Len(full) : full[j] = sub[k]
  /\ \A k1, k2 \in 1..Len(sub) :
       k1 < k2 =>
         \E j1, j2 \in 1..Len(full) :
           j1 < j2 /\ full[j1] = sub[k1] /\ full[j2] = sub[k2]

\* C1: with no override directory, for the enumeration E that getSourcePlugins
\* returned, an insiders build selects only plugins of the allow-list, every
\* plugin of E of the allow-list, in the order of E; any other build selects
\* E itself; the selected list is what buildDefaultPlugins or
\* generateDefaultPluginEntryPoints receives.
C1_InsidersSelection ==
  Selected =>
    /\ isInsidersBuild =>
         /\ \A k \in 1..Len(defaultPlugins) :
              defaultPlugins[k].id \in hardcodedPlugins
         /\ \A j \in 1..Len(enumeration) :
              enumeration[j].id \in hardcodedPlugins =>
                \E k \in 1..Len(defaultPlugins) : defaultPlugins[k] = enumeration[j]
         /\ IsSubsequenceInOrder(defaultPlugins, enumeration)
    /\ ~isInsidersBuild => defaultPlugins = enumeration
    /\ IF env.FLIPPER_NO_BUNDLED_PLUGINS
         THEN buildCalls = << defaultPlugins >>
         ELSE genCalls \in { <<>>, << defaultPlugins >> }

C1_Witness ==
  /\ Selected
  /\ pc = "done"
  /\ isInsidersBuild
  /\ Len(enumeration) = 3
  /\ enumeration[1].id \in hardcodedPlugins
  /\ enumeration[2].id \notin hardcodedPlugins
  /\ enumeration[3].id \in hardcodedPlugins
  /\ Len(defaultPlugins) = 2

\* buildDefaultPlugins has been called in this run.
BuilderCalled == buildCalls # <<>>

IsLinked(plugin) ==
  /\ plugin.name \in DOMAIN defaultPluginsDir
  /\ defaultPluginsDir[plugin.name] = Junction(plugin.dir)

\* C2: whichever builds and links throw, buildDefaultPlugins attempts every
\* plugin of the batch in order, every plugin whose build and link did not
\* throw is linked in the default-plugins directory, and the function
\* returns: it neither throws nor calls die.
C2_FailureIsolation ==
  /\ pc # "rejected_build"
  /\ dieCalls = 0
  /\ BuilderCalled =>
       /\ Len(attempts) = IF pc = "build" THEN idx - 1 ELSE Len(defaultPlugins)
       /\ \A k \in 1..Len(attempts) :
            /\ attempts[k].name = defaultPlugins[k].name
            /\ (attempts[k].build # "threw" /\ attempts[k].link = "ok")
                 => IsLinked(defaultPlugins[k])

C2_Witness ==
  /\ pc = "done"
  /\ Len(attempts) = 3
  /\ attempts[1].build = "threw"
  /\ attempts[2].link = "threw"
  /\ attempts[3].build = "ok"
  /\ attempts[3].link = "ok"
  /\ IsLinked(defaultPlugins[3])
  /\ ~IsLinked(defaultPlugins[1])

\* generateDefaultPluginEntryPoints has written the manifest.
ManifestWritten == pc \in {"gen_app", "gen_ui", "done"}

Normalized(v) == IF v = "0.0.0" THEN version ELSE v

\* C5: the manifest has one entry per plugin given, in order; an entry's
\* version is the tool's version when the plugin's is "0.0.0" and the
\* plugin's otherwise, flipperSDKVersion likewise and independently,
\* isBundled is true, dir and entry are cleared, every other field is the
\* plugin's.
C5_ManifestEntries ==
  ManifestWritten =>
    /\ Len(Manifest) = Len(genArg)
    /\ \A k \in 1..Len(genArg) :
         LET p == genArg[k]
             m == Manifest[k]
         IN /\ m.version = Normalized(p.version)
            /\ m.flipperSDKVersion = Normalized(p.flipperSDKVersion)
            /\ m.isBundled = TRUE
            /\ bundledPlugins[k].dir = Undefined
            /\ bundledPlugins[k].entry = Undefined
            /\ DOMAIN m = (DOMAIN p \cup {"isBundled"}) \ {"dir", "entry"}
            /\ \A f \in DOMAIN p \ OverriddenFields : m[f] = p[f]

C5_Witness ==
  /\ pc = "done"
  /\ Len(genArg) = 3
  /\ \E k \in 1..3 : genArg[k].version = "0.0.0" /\ genArg[k].flipperSDKVersion # "0.0.0"
  /\ \E k \in 1..3 : genArg[k].version # "0.0.0" /\ genArg[k].flipperSDKVersion = "0.0.0"
  /\ \E k \in 1..3 : Manifest[k].version = version /\ Manifest[k].flipperSDKVersion = "0.50.0"

\* The override branch has run to its end.
OverrideDone == pc = "done" /\ forcedDefaultPluginsDir # ""

\* The parts of C6 that are not about the directory's contents: the source
\* plugins are never enumerated, built or linked, and the Entry-Point
\* Generator is invoked exactly once, with the empty list.
OverrideSkipsPlugins ==
  /\ enumerations = 0
  /\ buildCalls = <<>>
  /\ attempts = <<>>
  /\ genCalls = << <<>> >>

\* C6 as stated: with an override directory, after prepareDefaultPlugins the
\* default-plugins directory holds exactly the entries of the override
\* directory, each unchanged, and nothing else; the source plugins are never
\* enumerated, built or linked and the generator runs once with [].
C6_Original ==
  OverrideDone =>
    /\ defaultPluginsDir = OverrideContents(forcedDefaultPluginsDir)
    /\ OverrideSkipsPlugins

\* C6 amended: the directory holds the entries of the override directory,
\* each unchanged, except bundled.json, which is the empty manifest the
\* generator wrote over the copy (added, or replacing the override's own),
\* and nothing else.
C6_OverrideCopy ==
  OverrideDone =>
    /\ DOMAIN defaultPluginsDir =
         DOMAIN OverrideContents(forcedDefaultPluginsDir) \cup {"bundled.json"}
    /\ \A n \in DOMAIN defaultPluginsDir :
         defaultPluginsDir[n] =
           IF n = "bundled.json" THEN JsonFile(<<>>)
           ELSE OverrideContents(forcedDefaultPluginsDir)[n]
    /\ OverrideSkipsPlugins

C6_Witness ==
  /\ OverrideDone
  /\ forcedDefaultPluginsDir = "prebuilt/b"
  /\ enumeration # <<>>
  /\ defaultPluginsDir["flipper-plugin-prebuilt"] = Prebuilt("b")
  /\ Manifest = <<>>

\* C7: with no override directory, buildDefaultPlugins runs exactly when
\* FLIPPER_NO_BUNDLED_PLUGINS is set: then every selected plugin is attempted
\* before the entry points are generated, for the empty list, and the
\* manifest is []; otherwise nothing is built or linked and the generator
\* receives the selected list.  A run that completes has invoked the
\* generator exactly once.
C7_BuilderIffNotBundled ==
  /\ Len(genCalls) <= 1
  /\ pc = "done" => Len(genCalls) = 1
  /\ (forcedDefaultPluginsDir = "" /\ genCalls # <<>>) =>
       /\ BuilderCalled <=> env.FLIPPER_NO_BUNDLED_PLUGINS
       /\ env.FLIPPER_NO_BUNDLED_PLUGINS =>
            /\ buildCalls = << defaultPlugins >>
            /\ Len(attempts) = Len(defaultPlugins)
            /\ genCalls = << <<>> >>
            /\ Manifest = <<>>
       /\ ~env.FLIPPER_NO_BUNDLED_PLUGINS =>
            /\ attempts = <<>>
            /\ \A n \in DOMAIN defaultPluginsDir :
                 defaultPluginsDir[n].kind # "junction"
            /\ genCalls = << defaultPlugins >>

C7_Witness ==
  /\ pc = "done"
  /\ forcedDefaultPluginsDir = ""
  /\ env.FLIPPER_NO_BUNDLED_PLUGINS
  /\ Len(defaultPlugins) = 2
  /\ Len(attempts) = 2
  /\ \E k \in 1..2 : IsLinked(defaultPlugins[k])
  /\ genCalls = << <<>> >>

\* C9: the loader holds one tryRequire statement per plugin of L, keyed by the
\* plugin's name, in the order of L; both consumer trees hold the same
\* loader; a second run with the same L leaves the same manifest and loader.
C9_LoaderPerPlugin ==
  pc = "done" =>
    /\ appIndex = browserUiIndex
    /\ appIndex.prelude = "tryRequire"
    /\ Len(appIndex.exports) = Len(genArg)
    /\ \A k \in 1..Len(genArg) :
         /\ appIndex.exports[k].key = genArg[k].name
         /\ appIndex.exports[k].tryRequire = genArg[k].name
         /\ appIndex.exports[k].require = genArg[k].name
    /\ (run > 1 /\ prevGen.arg = genArg) =>
         /\ defaultPluginsDir["bundled.json"] = prevGen.manifest
         /\ appIndex = prevGen.app
         /\ browserUiIndex = prevGen.ui

C9_Witness ==
  /\ pc = "done"
  /\ run = 2
  /\ Len(genArg) = 3
  /\ prevGen.arg = genArg
  /\ Len(appIndex.exports) = 3
  /\ browserUiIndex = prevGen.ui

\* The names the run has written into the default-plugins directory.
WrittenByRun ==
  { attempts[k].name : k \in { j \in 1..Len(attempts) : attempts[j].link = "ok" } }
  \cup (IF \E k \in 1..Len(fsLog) : fsLog[k] = "copy"
          THEN DOMAIN OverrideContents(forcedDefaultPluginsDir) ELSE {})
  \cup (IF \E k \in 1..Len(fsLog) : fsLog[k] = "writeJSON"
          THEN {"bundled.json"} ELSE {})

\* C10: on every branch the emptying of the default-plugins directory is the
\* first write of the run into it and happens once; what the directory held
\* before the run is gone, and what the run wrote is all there.
C10_ResetFirst ==
  /\ fsLog # <<>> =>
       /\ fsLog[1] = "emptyDir"
       /\ \A k \in 2..Len(fsLog) : fsLog[k] # "emptyDir"
  /\ pc # "start" =>
       /\ fsLog # <<>>
       /\ DOMAIN defaultPluginsDir = WrittenByRun
       /\ \A n \in DOMAIN defaultPluginsDir : defaultPluginsDir[n].kind # "stale"

C10_Witness ==
  /\ pc = "done"
  /\ run = 2
  /\ env.FLIPPER_NO_BUNDLED_PLUGINS
  /\ forcedDefaultPluginsDir = ""
  /\ Len(attempts) = 2
  /\ attempts[1].link = "threw"
  /\ attempts[2].link = "ok"
  /\ Len(fsLog) = 3

\* ------------------------------------------------ bundle compilation

\* The options every target hands to Metro.runBuild; url is the target's
\* sourceMapUrl in development.
RunBuildOptions(d, url) ==
  [ dev |-> d, minify |-> ~d, resetCache |-> ~d, sourceMap |-> TRUE,
    sourceMapUrl |-> IF d THEN url ELSE Undefined, inlineSourceMap |-> FALSE ]

SourceMapUrl(t) ==
  CASE t = "renderer" -> "bundle.map"
    [] t = "main" -> "main.bundle.map"
    [] t = "server" -> "index.map"

\* The bundles the engine may write for these options: minified as asked,
\* with the sourceMappingURL comment when a URL is given, with or without it
\* when none is.
MetroBundles(options) ==
  { [ exists |-> TRUE, minified |-> options.minify, comment |-> c ] :
      c \in IF options.sourceMapUrl # Undefined THEN {TRUE} ELSE BOOLEAN }

\* if (!dev) { stripSourceMapComment(out); }: the call is not awaited, the
\* strip is under way when the caller goes on.
StripStarted(t) == IF dev THEN stripPending ELSE stripPending \cup {t}

\* A die that logs and returns.
DieMutant == [ exited |-> FALSE, exitCode |-> 0 ]

\* die: console.error, then process.exit(1).
Die == [ exited |-> TRUE, exitCode |-> 1 ]

Resolved(op, v) == [ op |-> op, status |-> "resolved", value |-> v ]
Rejected(op) == [ op |-> op, status |-> "rejected", value |-> Undefined ]

\* What an operation whose catch block called die hands to its caller: when
\* process.exit has ended the process nothing, or else the value after die.
AfterDie(op, v) == IF Die.exited THEN results ELSE Append(results, Resolved(op, v))

\* A failure of the call-th operation, with the Metro.runBuild calls so far.
Failure(call, op, kind, runs) ==
  [ call |-> call, op |-> op, kind |-> kind, metroRuns |-> runs ]

CanInvoke == cpc = "idle" /\ ~exited /\ invoked < MaxCalls

\* buildFolder: tmp.dir hands a directory or an error to its callback; the
\* rejection is caught with die(e), then return ''.
BuildFolder ==
  /\ CanInvoke
  /\ invoked' = invoked + 1
  /\ \E ok \in BOOLEAN :
       IF ok
         THEN /\ results' = Append(results, Resolved("buildFolder", "tmp/flipper-build-1"))
              /\ UNCHANGED << failures, exited, exitCode, dieCalls >>
         ELSE /\ failures' = failures \cup { Failure(invoked + 1, "buildFolder", "provision", metroRuns) }
              /\ dieCalls' = dieCalls + 1
              /\ exited' = Die.exited
              /\ exitCode' = Die.exitCode
              /\ results' = AfterDie("buildFolder", "")
  /\ UNCHANGED << dev, cpc, bundles, metroOptions, stripPending, metroRuns >>
  /\ UNCHANGED << varsPlugins, varsMaps >>

\* compileRenderer up to its try block: the watch folders are awaited outside
\* it, a rejection of either goes to the caller.
CompileRendererWatchFolders ==
  /\ CanInvoke
  /\ invoked' = invoked + 1
  /\ \E ok \in BOOLEAN :
       IF ok
         THEN /\ cpc' = "renderer_compile"
              /\ UNCHANGED << results, failures >>
         ELSE /\ cpc' = "idle"
              /\ failures' = failures \cup { Failure(invoked + 1, "compileRenderer", "watchFolders", metroRuns) }
              /\ results' = Append(results, Rejected("compileRenderer"))
  /\ UNCHANGED << dev, bundles, metroOptions, stripPending, metroRuns, exited,
                  exitCode, dieCalls >>
  /\ UNCHANGED << varsPlugins, varsMaps >>

\* compileRenderer's try block: compile() runs Metro.runBuild and, in
\* production, starts the strip; a throw is caught with die(err).
CompileRenderer ==
  /\ cpc = "renderer_compile"
  /\ ~exited
  /\ cpc' = "idle"
  /\ metroRuns' = metroRuns + 1
  /\ metroOptions' =
       [ metroOptions EXCEPT !["renderer"] = RunBuildOptions(dev, SourceMapUrl("renderer")) ]
  /\ \/ /\ \E b \in MetroBundles(metroOptions'["renderer"]) :
              bundles' = [ bundles EXCEPT !["renderer"] = b ]
        /\ stripPending' = StripStarted("renderer")
        /\ results' = Append(results, Resolved("compileRenderer", Undefined))
        /\ UNCHANGED << failures, exited, exitCode, dieCalls >>
     \/ /\ failures' = failures \cup
             { Failure(invoked, "compileRenderer", "compile", metroRuns + 1) }
        /\ dieCalls' = dieCalls + 1
        /\ exited' = Die.exited
        /\ exitCode' = Die.exitCode
        /\ results' = AfterDie("compileRenderer", Undefined)
        /\ UNCHANGED << bundles, stripPending >>
  /\ UNCHANGED << dev, invoked >>
  /\ UNCHANGED << varsPlugins, varsMaps >>

\* compileMain: Metro.loadConfig, getWatchFolders, Metro.runBuild and the
\* start of the strip are all inside the try block; a throw is caught with
\* die(err).
CompileMain ==
  /\ CanInvoke
  /\ invoked' = invoked + 1
  /\ metroRuns' = metroRuns + 1
  /\ metroOptions' =
       [ metroOptions EXCEPT !["main"] = RunBuildOptions(dev, SourceMapUrl("main")) ]
  /\ \/ /\ \E b \in MetroBundles(metroOptions'["main"]) :
              bundles' = [ bundles EXCEPT !["main"] = b ]
        /\ stripPending' = StripStarted("main")
        /\ results' = Append(results, Resolved("compileMain", Undefined))
        /\ UNCHANGED << failures, exited, exitCode, dieCalls >>
     \/ /\ failures' = failures \cup { Failure(invoked + 1, "compileMain", "compile", metroRuns + 1) }
        /\ dieCalls' = dieCalls + 1
        /\ exited' = Die.exited
        /\ exitCode' = Die.exitCode
        /\ results' = AfterDie("compileMain", Undefined)
        /\ UNCHANGED << bundles, stripPending >>
  /\ UNCHANGED << dev, cpc >>
  /\ UNCHANGED << varsPlugins, varsMaps >>

\* compileServerMain: no try block, a throw of Metro.runBuild goes to the
\* caller.
CompileServerMain ==
  /\ CanInvoke
  /\ invoked' = invoked + 1
  /\ metroRuns' = metroRuns + 1
  /\ metroOptions' =
       [ metroOptions EXCEPT !["server"] = RunBuildOptions(dev, SourceMapUrl("server")) ]
  /\ \/ /\ \E b \in MetroBundles(metroOptions'["server"]) :
              bundles' = [ bundles EXCEPT !["server"] = b ]
        /\ stripPending' = StripStarted("server")
        /\ results' = Append(results, Resolved("compileServerMain", Undefined))
        /\ UNCHANGED failures
     \/ /\ failures' = failures \cup { Failure(invoked + 1, "compileServerMain", "compile", metroRuns + 1) }
        /\ results' = Append(results, Rejected("compileServerMain"))
        /\ UNCHANGED << bundles, stripPending >>
  /\ UNCHANGED << dev, cpc, exited, exitCode, dieCalls >>
  /\ UNCHANGED << varsPlugins, varsMaps >>

\* stripSourceMapComment reads the bundle and writes it back without its
\* trailing sourceMappingURL comment; it ends some time after its call.
StripSourceMapCommentEnds ==
  /\ ~exited
  /\ \E t \in stripPending :
       /\ bundles' = [ bundles EXCEPT ![t].comment = FALSE ]
       /\ stripPending' = stripPending \ {t}
  /\ UNCHANGED << dev, cpc, invoked, metroOptions, results, failures, metroRuns,
                  exited, exitCode, dieCalls >>
  /\ UNCHANGED << varsPlugins, varsMaps >>

InitCompile ==
  /\ dev \in BOOLEAN
  /\ CompileIdle
  /\ QuietPlugins
  /\ QuietMaps

NextCompile ==
  \/ BuildFolder
  \/ CompileRendererWatchFolders
  \/ CompileRenderer
  \/ CompileMain
  \/ CompileServerMain
  \/ StripSourceMapCommentEnds

SpecCompile == InitCompile /\ [][NextCompile]_vars

\* C3 as stated: for each target whose compile operation has returned, in
\* development Metro was run with minify off, no inlined source map and the
\* target's named source-map URL, and the bundle is as produced; in
\* production Metro was run with minify and cache reset on, the strip has
\* finished and the bundle holds no sourceMappingURL comment.
C3_Original ==
  \A t \in Targets :
    bundles[t].exists =>
      LET o == metroOptions[t]
      IN IF dev
           THEN /\ ~o.minify
                /\ ~o.inlineSourceMap
                /\ o.sourceMapUrl = SourceMapUrl(t)
                /\ t \notin stripPending
                /\ bundles[t].comment
                /\ ~bundles[t].minified
           ELSE /\ o.minify
                /\ o.resetCache
                /\ bundles[t].minified
                /\ t \notin stripPending
                /\ ~bundles[t].comment

\* The failures C8 is about.
IsFatal(f) ==
  \/ f.op = "buildFolder" /\ f.kind = "provision"
  \/ f.op \in {"compileRenderer", "compileMain"} /\ f.kind = "compile"

\* C8: a provisioning failure in buildFolder and a compilation failure in
\* compileRenderer or compileMain call die, which exits the process with a
\* non-zero code; the failing call hands its caller neither a rejection nor
\* a value, Metro is not run again and no further operation is started.
C8_FatalFailures ==
  \A f \in failures :
    IsFatal(f) =>
      /\ dieCalls >= 1
      /\ exited
      /\ exitCode # 0
      /\ Len(results) = f.call - 1
      /\ invoked = f.call
      /\ metroRuns = f.metroRuns
      /\ ~ENABLED NextCompile

C8_Witness ==
  /\ exited
  /\ exitCode = 1
  /\ invoked = 2
  /\ Len(results) = 1
  /\ results[1].op = "buildFolder"
  /\ \E f \in failures : f.op = "compileRenderer" /\ f.kind = "compile" /\ f.call = 2
  /\ stripPending = {}

\* ------------------------------------------------------ moveSourceMaps

\* path.join
Join(d, n) == d \o "/" \o n

\* The workspace buildFolder resolved to, and staticDir of ./paths.
buildFolderPath == "tmp/flipper-build-1"
staticDir == "static"

mainBundleMap == Join(buildFolderPath, "bundle.map")
rendererBundleMap == Join(staticDir, "main.bundle.map")

\* The files a build may have left, with what each holds.
MapFiles ==
  { mainBundleMap, rendererBundleMap, Join("maps", "bundle.map"),
    Join("maps", "main.bundle.map") }

BundleFile == Join(staticDir, "main.bundle.js")

InitialContent(path) ==
  CASE path = mainBundleMap -> "map of bundle.js"
    [] path = rendererBundleMap -> "map of main.bundle.js"
    [] path = BundleFile -> "main bundle"
    [] OTHER -> "map of an earlier build"

\* if (sourceMapFolder)
IsGiven(folder) == folder # Undefined /\ folder # ""

\* fs.move(src, dest, {overwrite: true}) rejects when src does not exist and
\* when src and dest are the same file.
CanMove(fs, src, dest) == src \in DOMAIN fs /\ src # dest

\* A move that leaves the source in place (a copy).
MoveMutant(fs, src, dest) ==
  [ q \in DOMAIN fs \cup {dest} |-> IF q = dest THEN fs[src] ELSE fs[q] ]

\* The file system after the move: dest holds what src held, src is gone.
Move(fs, src, dest) ==
  [ q \in (DOMAIN fs \ {src}) \cup {dest} |-> IF q = dest THEN fs[src] ELSE fs[q] ]

\* fs.remove(path): no error when the path does not exist.
Remove(fs, path) == [ q \in DOMAIN fs \ {path} |-> fs[q] ]

InitMaps ==
  /\ sourceMapFolder \in { Undefined, "maps", buildFolderPath, staticDir }
  /\ \E present \in SUBSET MapFiles :
       files = [ q \in present \cup {BundleFile} |-> InitialContent(q) ]
  /\ files0 = files
  /\ \E others \in SUBSET {"maps"} :
       directories =
         {buildFolderPath, staticDir} \cup others
         \cup (IF \E n \in {"bundle.map", "main.bundle.map"} : Join("maps", n) \in DOMAIN files
                THEN {"maps"} ELSE {})
  /\ mpc = "start"
  /\ QuietCompile
  /\ QuietPlugins

\* await fs.ensureDir(sourceMapFolder)
EnsureSourceMapFolder ==
  /\ mpc = "start"
  /\ IsGiven(sourceMapFolder)
  /\ directories' = directories \cup {sourceMapFolder}
  /\ mpc' = "move_main"
  /\ UNCHANGED << sourceMapFolder, files, files0 >>
  /\ UNCHANGED << varsPlugins, varsCompile, dieCalls >>

\* await fs.move(mainBundleMap, sourceMapFolder/bundle.map, {overwrite: true})
MoveMainBundleMap ==
  /\ mpc = "move_main"
  /\ CanMove(files, mainBundleMap, Join(sourceMapFolder, "bundle.map"))
  /\ files' = Move(files, mainBundleMap, Join(sourceMapFolder, "bundle.map"))
  /\ mpc' = "move_renderer"
  /\ UNCHANGED << sourceMapFolder, directories, files0 >>
  /\ UNCHANGED << varsPlugins, varsCompile, dieCalls >>

\* await fs.move(rendererBundleMap, sourceMapFolder/main.bundle.map,
\* {overwrite: true}); moveSourceMaps returns.
MoveRendererBundleMap ==
  /\ mpc = "move_renderer"
  /\ CanMove(files, rendererBundleMap, Join(sourceMapFolder, "main.bundle.map"))
  /\ files' = Move(files, rendererBundleMap, Join(sourceMapFolder, "main.bundle.map"))
  /\ mpc' = "done"
  /\ UNCHANGED << sourceMapFolder, directories, files0 >>
  /\ UNCHANGED << varsPlugins, varsCompile, dieCalls >>

\* Either fs.move rejects: the rejection leaves moveSourceMaps.
MoveRejects ==
  /\ \/ /\ mpc = "move_main"
        /\ ~CanMove(files, mainBundleMap, Join(sourceMapFolder, "bundle.map"))
     \/ /\ mpc = "move_renderer"
        /\ ~CanMove(files, rendererBundleMap, Join(sourceMapFolder, "main.bundle.map"))
  /\ mpc' = "rejected"
  /\ UNCHANGED << sourceMapFolder, files, directories, files0 >>
  /\ UNCHANGED << varsPlugins, varsCompile, dieCalls >>

\* else { await fs.remove(mainBundleMap); ... }
RemoveMainBundleMap ==
  /\ mpc = "start"
  /\ ~IsGiven(sourceMapFolder)
  /\ files' = Remove(files, mainBundleMap)
  /\ mpc' = "remove_renderer"
  /\ UNCHANGED << sourceMapFolder, directories, files0 >>
  /\ UNCHANGED << varsPlugins, varsCompile, dieCalls >>

\* await fs.remove(rendererBundleMap); moveSourceMaps returns.
RemoveRendererBundleMap ==
  /\ mpc = "remove_renderer"
  /\ files' = Remove(files, rendererBundleMap)
  /\ mpc' = "done"
  /\ UNCHANGED << sourceMapFolder, directories, files0 >>
  /\ UNCHANGED << varsPlugins, varsCompile, dieCalls >>

NextMaps ==
  \/ EnsureSourceMapFolder
  \/ MoveMainBundleMap
  \/ MoveRendererBundleMap
  \/ MoveRejects
  \/ RemoveMainBundleMap
  \/ RemoveRendererBundleMap

SpecMaps == InitMaps /\ [][NextMaps]_vars

\* The files moveSourceMaps is not about are as they were.
OtherFilesUntouched(touched) ==
  \A q \in DOMAIN files0 \ touched : q \in DOMAIN files /\ files[q] = files0[q]

\* C4: after moveSourceMaps, with a sourceMapFolder neither original map
\* exists and the folder holds both, as bundle.map and main.bundle.map, in
\* place of any files of those names; with none, neither original exists and
\* no file has appeared anywhere.
C4_MapsMovedOrRemoved ==
  mpc = "done" =>
    /\ mainBundleMap \notin DOMAIN files
    /\ rendererBundleMap \notin DOMAIN files
    /\ IF IsGiven(sourceMapFolder)
         THEN LET movedMain == Join(sourceMapFolder, "bundle.map")
                  movedRenderer == Join(sourceMapFolder, "main.bundle.map")
              IN /\ sourceMapFolder \in directories
                 /\ DOMAIN files =
                      (DOMAIN files0 \ {mainBundleMap, rendererBundleMap})
                      \cup {movedMain, movedRenderer}
                 /\ files[movedMain] = files0[mainBundleMap]
                 /\ files[movedRenderer] = files0[rendererBundleMap]
                 /\ OtherFilesUntouched({mainBundleMap, rendererBundleMap,
                                         movedMain, movedRenderer})
         ELSE /\ DOMAIN files = DOMAIN files0 \ {mainBundleMap, rendererBundleMap}
              /\ OtherFilesUntouched({mainBundleMap, rendererBundleMap})

C4_Witness ==
  /\ mpc = "done"
  /\ sourceMapFolder = "maps"
  /\ Join("maps", "bundle.map") \in DOMAIN files0
  /\ files0[Join("maps", "bundle.map")] = "map of an earlier build"
  /\ files[Join("maps", "bundle.map")] = "map of bundle.js"
  /\ files[Join("maps", "main.bundle.map")] = "map of main.bundle.js"

====
